---- MODULE Spec2Model ----
(***************************************************************************)
(* Model of net/tools/dafsa/make_dafsa.py: the compiler that turns a word  *)
(* list into the byte array of a DAFSA.                                    *)
(*                                                                         *)
(* A graph is a pair [src, heap].  heap is a sequence of interior nodes    *)
(* (label, children); a node's identity (python's id(node)) is its index   *)
(* in heap.  The sink (python None) is the identity 0.  src is the source  *)
(* node, a list of node identities.  A label is a sequence of character    *)
(* codes.                                                                  *)
(***************************************************************************)
EXTENDS Integers, Sequences, FiniteSets, TLC

\* ---------------------------------------------------------------- bounds
MaxWords == 2
MaxBody == 2
MaxInputWords == 2
MaxInputBody == 1
MaxChildren == 3
MaxGap == 1

\* ------------------------------------------------------- program constants
LabelEndBit == 128
Bits6 == 64
Bits13 == 8192
Bits21 == 2097152

\* ------------------------------------------------------------- data model
None == 0

InteriorNode(label, children) == [label |-> label, children |-> children]

DAFSA(src, heap) == [src |-> src, heap |-> heap]

EmptyDAFSA == DAFSA(<<>>, <<>>)

\* label[::-1] and list.reverse()
Reversed(s) == [i \in 1..Len(s) |-> s[Len(s) + 1 - i]]

\* ---------------------------------------------------------------- to_dafsa
\* ToNodes with the upper limit of the range off by one
RECURSIVE ToNodes_UpperLimit(_, _)
ToNodes_UpperLimit(word, heap) ==
  IF ~(31 < word[1] /\ word[1] <= 128)
  THEN [raised |-> "InputError", node |-> None, heap |-> heap]
  ELSE IF Len(word) = 1
  THEN [raised |-> "", node |-> Len(heap) + 1,
        heap |-> Append(heap, InteriorNode(<<word[1] % 16>>, <<None>>))]
  ELSE LET r == ToNodes_UpperLimit(Tail(word), heap) IN
       IF r.raised # "" THEN r
       ELSE [raised |-> "", node |-> Len(r.heap) + 1,
             heap |-> Append(r.heap, InteriorNode(<<word[1]>>, <<r.node>>))]

RECURSIVE ToNodes(_, _)
ToNodes(word, heap) ==
  IF ~(31 < word[1] /\ word[1] < 128)
  THEN [raised |-> "InputError", node |-> None, heap |-> heap]
  ELSE IF Len(word) = 1
  THEN [raised |-> "", node |-> Len(heap) + 1,
        heap |-> Append(heap, InteriorNode(<<word[1] % 16>>, <<None>>))]
  ELSE LET r == ToNodes(Tail(word), heap) IN
       IF r.raised # "" THEN r
       ELSE [raised |-> "", node |-> Len(r.heap) + 1,
             heap |-> Append(r.heap, InteriorNode(<<word[1]>>, <<r.node>>))]

RECURSIVE to_dafsa_words(_, _, _, _)
to_dafsa_words(words, i, src, heap) ==
  IF i > Len(words) THEN [raised |-> "", dafsa |-> DAFSA(src, heap)]
  ELSE LET r == ToNodes(words[i], heap) IN
       IF r.raised # "" THEN [raised |-> r.raised, dafsa |-> EmptyDAFSA]
       ELSE to_dafsa_words(words, i + 1, Append(src, r.node), r.heap)

to_dafsa(words) ==
  IF words = <<>> THEN [raised |-> "InputError", dafsa |-> EmptyDAFSA]
  ELSE to_dafsa_words(words, 1, <<>>, <<>>)

\* ---------------------------------------------------------------- to_words
RECURSIVE to_words(_, _)
RECURSIVE to_words_children(_, _, _, _)
to_words(heap, node) ==
  IF node = None THEN << <<>> >>
  ELSE to_words_children(heap, heap[node].label, heap[node].children, 1)

to_words_children(heap, label, children, i) ==
  IF i > Len(children) THEN <<>>
  ELSE LET ws == to_words(heap, children[i]) IN
       [j \in 1..Len(ws) |-> label \o ws[j]]
         \o to_words_children(heap, label, children, i + 1)

\* frozenset(seq)
frozenset(s) == {s[i] : i \in 1..Len(s)}

\* ----------------------------------------------------------------- reverse
RECURSIVE dfs(_, _, _, _)
RECURSIVE dfs_children(_, _, _, _, _)
dfs(old, node, parent, st) ==
  IF node = None THEN [st EXCEPT !.sink = Append(@, parent)]
  ELSE IF st.nodemap[node] = 0
  THEN LET new == Len(st.heap) + 1
           st1 == [st EXCEPT
                     !.heap = Append(@, InteriorNode(Reversed(old[node].label),
                                                     <<parent>>)),
                     !.nodemap[node] = new]
       IN dfs_children(old, old[node].children, 1, new, st1)
  ELSE [st EXCEPT !.heap[st.nodemap[node]].children = Append(@, parent)]

dfs_children(old, children, i, parent, st) ==
  IF i > Len(children) THEN st
  ELSE dfs_children(old, children, i + 1, parent,
                    dfs(old, children[i], parent, st))

RECURSIVE reverse_roots(_, _, _)
reverse_roots(dafsa, i, st) ==
  IF i > Len(dafsa.src) THEN st
  ELSE reverse_roots(dafsa, i + 1, dfs(dafsa.heap, dafsa.src[i], None, st))

reverse(dafsa) ==
  LET st == reverse_roots(dafsa, 1,
              [sink |-> <<>>, heap |-> <<>>,
               nodemap |-> [n \in 1..Len(dafsa.heap) |-> 0]])
  IN DAFSA(st.sink, st.heap)

\* ----------------------------------------------------------- join_suffixes
\* nodemap is a list of (suffixes, node) entries, keyed by the suffix set.
HasSuffixes(nodemap, suffixes) ==
  \E e \in 1..Len(nodemap) : nodemap[e].key = suffixes

NodeOfSuffixes(nodemap, suffixes) ==
  nodemap[CHOOSE e \in 1..Len(nodemap) : nodemap[e].key = suffixes].node

RECURSIVE join_suffixes_join(_, _, _)
RECURSIVE join_suffixes_children(_, _, _, _, _)
join_suffixes_join(old, node, st) ==
  LET suffixes == frozenset(to_words(old, node)) IN
  IF HasSuffixes(st.nodemap, suffixes)
  THEN [st EXCEPT !.ret = NodeOfSuffixes(st.nodemap, suffixes)]
  ELSE LET r == join_suffixes_children(old, old[node].children, 1, <<>>, st)
           new == Len(r.st.heap) + 1
       IN [heap |-> Append(r.st.heap, InteriorNode(old[node].label, r.list)),
           nodemap |-> Append(r.st.nodemap, [key |-> suffixes, node |-> new]),
           ret |-> new]

join_suffixes_children(old, children, i, list, st) ==
  IF i > Len(children) THEN [list |-> list, st |-> st]
  ELSE LET s == join_suffixes_join(old, children[i], st) IN
       join_suffixes_children(old, children, i + 1, Append(list, s.ret), s)

join_suffixes(dafsa) ==
  LET r == join_suffixes_children(dafsa.heap, dafsa.src, 1, <<>>,
             [heap |-> <<>>,
              nodemap |-> << [key |-> { <<>> }, node |-> None] >>,
              ret |-> None])
  IN DAFSA(r.list, r.st.heap)

\* ------------------------------------------------------------- join_labels
\* parentcount is [sink, nodes]: the count of id(None), statically 2, and the
\* count of every node (0: not in the dictionary).  The sink is in parentcount
\* and in nodemap from the start, so the assertions "node is not None" and
\* "child is not None" cannot fail and are left out.
RECURSIVE count_parents(_, _, _)
RECURSIVE count_parents_children(_, _, _, _)
\* the children counted again at every visit of a node
count_parents_Recount(old, node, parentcount) ==
  IF node = None THEN [parentcount EXCEPT !.sink = @ + 1]
  ELSE count_parents_children(old, old[node].children, 1,
                              [parentcount EXCEPT !.nodes[node] = @ + 1])

count_parents(old, node, parentcount) ==
  IF node = None THEN [parentcount EXCEPT !.sink = @ + 1]
  ELSE IF parentcount.nodes[node] # 0
  THEN [parentcount EXCEPT !.nodes[node] = @ + 1]
  ELSE count_parents_children(old, old[node].children, 1,
                              [parentcount EXCEPT !.nodes[node] = 1])

count_parents_children(old, children, i, parentcount) ==
  IF i > Len(children) THEN parentcount
  ELSE count_parents_children(old, children, i + 1,
                              count_parents(old, children[i], parentcount))

ParentCountOf(parentcount, node) ==
  IF node = None THEN parentcount.sink ELSE parentcount.nodes[node]

RECURSIVE join_labels_join(_, _, _, _)
RECURSIVE join_labels_children(_, _, _, _, _, _)
join_labels_join(old, parentcount, node, st) ==
  IF node = None THEN [st EXCEPT !.ret = None]
  ELSE IF st.nodemap[node] # 0 THEN [st EXCEPT !.ret = st.nodemap[node]]
  ELSE LET r == join_labels_children(old, parentcount, old[node].children,
                                     1, <<>>, st)
           children == r.list
           new == Len(r.st.heap) + 1
           joined ==
             IF Len(children) = 1
                /\ ParentCountOf(parentcount, old[node].children[1]) = 1
             THEN LET child == r.st.heap[children[1]] IN
                  InteriorNode(old[node].label \o child.label, child.children)
             ELSE InteriorNode(old[node].label, children)
       IN [heap |-> Append(r.st.heap, joined),
           nodemap |-> [r.st.nodemap EXCEPT ![node] = new],
           ret |-> new]

join_labels_children(old, parentcount, children, i, list, st) ==
  IF i > Len(children) THEN [list |-> list, st |-> st]
  ELSE LET s == join_labels_join(old, parentcount, children[i], st) IN
       join_labels_children(old, parentcount, children, i + 1,
                            Append(list, s.ret), s)

join_labels(dafsa) ==
  LET parentcount ==
        count_parents_children(dafsa.heap, dafsa.src, 1,
          [sink |-> 2, nodes |-> [n \in 1..Len(dafsa.heap) |-> 0]])
      r == join_labels_children(dafsa.heap, parentcount, dafsa.src, 1, <<>>,
             [heap |-> <<>>,
              nodemap |-> [n \in 1..Len(dafsa.heap) |-> 0],
              ret |-> None])
  IN DAFSA(r.list, r.st.heap)

\* ---------------------------------------------------------------- top_sort
\* incoming maps a node to its in-degree; -1: not in the dictionary.
RECURSIVE count_incoming(_, _, _)
RECURSIVE count_incoming_children(_, _, _, _)
count_incoming(heap, node, incoming) ==
  IF node = None THEN incoming
  ELSE IF incoming[node] = -1
  THEN count_incoming_children(heap, heap[node].children, 1,
                               [incoming EXCEPT ![node] = 1])
  ELSE [incoming EXCEPT ![node] = @ + 1]

count_incoming_children(heap, children, i, incoming) ==
  IF i > Len(children) THEN incoming
  ELSE count_incoming_children(heap, children, i + 1,
                               count_incoming(heap, children[i], incoming))

\* the references of the source left in the in-degrees
uncount_source_Skipped(src, i, incoming) == incoming

\* for node in dafsa: if node: incoming[id(node)] -= 1
RECURSIVE uncount_source(_, _, _)
uncount_source(src, i, incoming) ==
  IF i > Len(src) THEN incoming
  ELSE uncount_source(src, i + 1,
         IF src[i] = None THEN incoming
         ELSE [incoming EXCEPT ![src[i]] = @ - 1])

\* the for loop over node[1] in the body of the while loop
RECURSIVE top_sort_children(_, _, _, _)
top_sort_children(children, i, incoming, waiting) ==
  IF i > Len(children) THEN [incoming |-> incoming, waiting |-> waiting]
  ELSE IF children[i] = None
  THEN top_sort_children(children, i + 1, incoming, waiting)
  ELSE LET inc == [incoming EXCEPT ![children[i]] = @ - 1] IN
       top_sort_children(children, i + 1, inc,
         IF inc[children[i]] = 0 THEN Append(waiting, children[i])
         ELSE waiting)

RECURSIVE top_sort_while(_, _, _, _)
top_sort_while(heap, waiting, nodes, incoming) ==
  IF waiting = <<>> THEN [raised |-> "", nodes |-> nodes]
  ELSE LET node == waiting[Len(waiting)]
           rest == SubSeq(waiting, 1, Len(waiting) - 1)
       IN IF incoming[node] # 0
          THEN [raised |-> "AssertionError", nodes |-> nodes]
          ELSE LET r == top_sort_children(heap[node].children, 1, incoming, rest)
               IN top_sort_while(heap, r.waiting, Append(nodes, node),
                                 r.incoming)

top_sort(dafsa) ==
  LET counted == count_incoming_children(dafsa.heap, dafsa.src, 1,
                   [n \in 1..Len(dafsa.heap) |-> -1])
      incoming == uncount_source(dafsa.src, 1, counted)
      waiting == SelectSeq(dafsa.src,
                   LAMBDA node : node # None /\ incoming[node] = 0)
  IN top_sort_while(dafsa.heap, waiting, <<>>, incoming)

\* ------------------------------------------------------------ encode_links
\* b | (1 << 7)
SetBit7(b) == IF (b \div LabelEndBit) % 2 = 1 THEN b ELSE b + LabelEndBit

\* sorted(children, key = lambda x: -offsets[id(x)]): a stable sort
RECURSIVE SortedInsert(_, _, _)
SortedInsert(sorted, child, offsets) ==
  IF sorted = <<>> THEN <<child>>
  ELSE IF offsets[sorted[Len(sorted)]] >= offsets[child]
  THEN Append(sorted, child)
  ELSE Append(SortedInsert(SubSeq(sorted, 1, Len(sorted) - 1), child, offsets),
              sorted[Len(sorted)])

RECURSIVE SortedByOffset(_, _, _, _)
SortedByOffset(children, i, offsets, sorted) ==
  IF i > Len(children) THEN sorted
  ELSE SortedByOffset(children, i + 1, offsets,
                      SortedInsert(sorted, children[i], offsets))

\* the bytes of one link
LinkBytes(distance) ==
  IF distance < Bits6 THEN <<distance>>
  ELSE IF distance < Bits13
  THEN <<64 + (distance \div 256), distance % 256>>
  ELSE <<96 + (distance \div 65536), (distance \div 256) % 256,
         distance % 256>>

\* the for loop without "offset -= distance"
RECURSIVE LinksFor_NoRebase(_, _, _, _, _, _, _)
LinksFor_NoRebase(children, i, offsets, offset, buf, last, distances) ==
  IF i > Len(children)
  THEN [raised |-> "", buf |-> buf, last |-> last, distances |-> distances]
  ELSE LET distance == offset - offsets[children[i]] IN
       IF ~(distance > 0 /\ distance < Bits21)
       THEN [raised |-> "AssertionError", buf |-> buf, last |-> last,
             distances |-> Append(distances, distance)]
       ELSE LinksFor_NoRebase(children, i + 1, offsets, offset,
                              buf \o LinkBytes(distance), Len(buf),
                              Append(distances, distance))

\* the for loop over the sorted children: one computation of the block
RECURSIVE LinksFor(_, _, _, _, _, _, _)
LinksFor(children, i, offsets, offset, buf, last, distances) ==
  IF i > Len(children)
  THEN [raised |-> "", buf |-> buf, last |-> last, distances |-> distances]
  ELSE LET distance == offset - offsets[children[i]] IN
       IF ~(distance > 0 /\ distance < Bits21)
       THEN [raised |-> "AssertionError", buf |-> buf, last |-> last,
             distances |-> Append(distances, distance)]
       ELSE LinksFor(children, i + 1, offsets, offset - distance,
                     buf \o LinkBytes(distance), Len(buf),
                     Append(distances, distance))

\* the while True loop with the guess lowered by one byte a time
RECURSIVE LinksWhile_ByOne(_, _, _, _, _)
LinksWhile_ByOne(children, offsets, current, guess, guesses) ==
  LET r == LinksFor(children, 1, offsets, current + guess, <<>>, 0, <<>>)
      tried == Append(guesses, [guess |-> guess, length |-> Len(r.buf)])
  IN IF r.raised # "" \/ Len(r.buf) = guess
     THEN [raised |-> r.raised, buf |-> r.buf, last |-> r.last,
           distances |-> r.distances, guesses |-> tried]
     ELSE LinksWhile_ByOne(children, offsets, current, guess - 1, tried)

\* the while True loop left as soon as the block is no longer than the guess
RECURSIVE LinksWhile_AtMost(_, _, _, _, _)
LinksWhile_AtMost(children, offsets, current, guess, guesses) ==
  LET r == LinksFor(children, 1, offsets, current + guess, <<>>, 0, <<>>)
      tried == Append(guesses, [guess |-> guess, length |-> Len(r.buf)])
  IN IF r.raised # "" \/ Len(r.buf) <= guess
     THEN [raised |-> r.raised, buf |-> r.buf, last |-> r.last,
           distances |-> r.distances, guesses |-> tried]
     ELSE LinksWhile_AtMost(children, offsets, current, Len(r.buf), tried)

\* the while True loop; guesses records the guess of every iteration
RECURSIVE LinksWhile(_, _, _, _, _)
LinksWhile(children, offsets, current, guess, guesses) ==
  LET r == LinksFor(children, 1, offsets, current + guess, <<>>, 0, <<>>)
      tried == Append(guesses, [guess |-> guess, length |-> Len(r.buf)])
  IN IF r.raised # "" \/ Len(r.buf) = guess
     THEN [raised |-> r.raised, buf |-> r.buf, last |-> r.last,
           distances |-> r.distances, guesses |-> tried]
     ELSE LinksWhile(children, offsets, current, Len(r.buf), tried)

NoLinks(raised) ==
  [raised |-> raised, buf |-> <<>>, children |-> <<>>, distances |-> <<>>,
   guesses |-> <<>>]

\* the flag set on the first link written
encode_links_FirstLink(children, offsets, current) ==
  IF children[1] = None
  THEN IF Len(children) = 1 THEN NoLinks("") ELSE NoLinks("AssertionError")
  ELSE IF \E i \in 1..Len(children) :
            children[i] = None \/ offsets[children[i]] = -1
  THEN NoLinks("KeyError")
  ELSE LET sorted == SortedByOffset(children, 1, offsets, <<>>)
           r == LinksWhile(sorted, offsets, current, 3 * Len(children), <<>>)
       IN IF r.raised # ""
          THEN [NoLinks(r.raised) EXCEPT !.children = sorted,
                                         !.distances = r.distances,
                                         !.guesses = r.guesses]
          ELSE [raised |-> "",
                buf |-> Reversed([r.buf EXCEPT ![1] = SetBit7(@)]),
                children |-> sorted,
                distances |-> r.distances,
                guesses |-> r.guesses]

encode_links(children, offsets, current) ==
  IF children[1] = None
  THEN IF Len(children) = 1 THEN NoLinks("") ELSE NoLinks("AssertionError")
  ELSE IF \E i \in 1..Len(children) :
            children[i] = None \/ offsets[children[i]] = -1
  THEN NoLinks("KeyError")
  ELSE LET sorted == SortedByOffset(children, 1, offsets, <<>>)
           r == LinksWhile(sorted, offsets, current, 3 * Len(children), <<>>)
       IN IF r.raised # ""
          THEN [NoLinks(r.raised) EXCEPT !.children = sorted,
                                         !.distances = r.distances,
                                         !.guesses = r.guesses]
          ELSE [raised |-> "",
                buf |-> Reversed([r.buf EXCEPT ![r.last + 1] = SetBit7(@)]),
                children |-> sorted,
                distances |-> r.distances,
                guesses |-> r.guesses]

\* ------------------------------------------- encode_prefix, encode_label
\* encode_prefix without reversed()
encode_prefix_Forward(label) == label

encode_prefix(label) == Reversed(label)

encode_label(label) ==
  LET buf == encode_prefix(label) IN [buf EXCEPT ![1] = SetBit7(@)]

\* ------------------------------------------------------------------ encode
\* offsets maps a node to its recorded position; -1: not in the dictionary.
\* links records every call of encode_links: the node (None: the source),
\* current, and what the call returned.  sorted is what top_sort returned.
EncodeState(raised, output, offsets, links) ==
  [raised |-> raised, output |-> output, offsets |-> offsets, links |-> links]

encode_node(heap, node, st) ==
  LET children == heap[node].children
      label == heap[node].label
  IN IF Len(children) = 1 /\ children[1] # None
        /\ st.offsets[children[1]] = -1
     THEN [st EXCEPT !.raised = "KeyError"]
     ELSE IF Len(children) = 1 /\ children[1] # None
             /\ st.offsets[children[1]] = Len(st.output)
     THEN LET out == st.output \o encode_prefix(label) IN
          [st EXCEPT !.output = out, !.offsets[node] = Len(out)]
     ELSE LET l == encode_links(children, st.offsets, Len(st.output))
              log == Append(st.links, [node |-> node,
                                       current |-> Len(st.output),
                                       call |-> l])
          IN IF l.raised # ""
             THEN [st EXCEPT !.raised = l.raised, !.links = log]
             ELSE LET out == (st.output \o l.buf) \o encode_label(label) IN
                  [st EXCEPT !.output = out, !.offsets[node] = Len(out),
                             !.links = log]

RECURSIVE encode_nodes(_, _, _, _)
encode_nodes(heap, nodes, i, st) ==
  IF i < 1 \/ st.raised # "" THEN st
  ELSE encode_nodes(heap, nodes, i - 1, encode_node(heap, nodes[i], st))

encode(dafsa) ==
  LET sorted == top_sort(dafsa)
      start == EncodeState(sorted.raised, <<>>,
                           [n \in 1..Len(dafsa.heap) |-> -1], <<>>)
      st == encode_nodes(dafsa.heap, sorted.nodes, Len(sorted.nodes), start)
  IN IF st.raised # ""
     THEN [raised |-> st.raised, output |-> <<>>, sorted |-> sorted,
           offsets |-> st.offsets, links |-> st.links]
     ELSE LET l == encode_links(dafsa.src, st.offsets, Len(st.output))
              log == Append(st.links, [node |-> None,
                                       current |-> Len(st.output),
                                       call |-> l])
          IN [raised |-> l.raised,
              output |-> IF l.raised # "" THEN <<>>
                         ELSE Reversed(st.output \o l.buf),
              sorted |-> sorted,
              offsets |-> st.offsets,
              links |-> log]

\* ------------------------------------------------------------ words_to_cxx
\* the transformations without the first round, the one that joins prefixes
Funs_SuffixesOnly == <<"join_suffixes", "join_labels">>

\* for fun in (reverse, join_suffixes, reverse, join_suffixes, join_labels)
Funs == <<"reverse", "join_suffixes", "reverse", "join_suffixes", "join_labels">>

Apply(name, dafsa) ==
  CASE name = "reverse" -> reverse(dafsa)
    [] name = "join_suffixes" -> join_suffixes(dafsa)
    [] name = "join_labels" -> join_labels(dafsa)

\* ------------------------------------------ the decoding of the byte array
\* The array is the sequence a; the byte at address p is a[p + 1].
IsChar(b) == 32 <= b /\ b <= 127
IsEndChar(b) == 160 <= b /\ b <= 255
IsReturnValue(b) == 128 <= b /\ b <= 143

\* <offset1>, <offset2> <byte>, <offset3> <byte> <byte>
OffsetWidth(b) ==
  IF (b \div 64) % 2 = 0 THEN 1 ELSE IF (b \div 32) % 2 = 0 THEN 2 ELSE 3

OffsetValue(a, p) ==
  LET w == OffsetWidth(a[p + 1]) IN
  IF w = 1 THEN a[p + 1] % 64
  ELSE IF w = 2 THEN (a[p + 1] % 32) * 256 + a[p + 2]
  ELSE (a[p + 1] % 32) * 65536 + a[p + 2] * 256 + a[p + 3]

IsEndOffset(b) == b >= 128

\* The links of the offset block at address p, in the order they are read:
\* the address of each link and the address of the child it leads to.
RECURSIVE DecodeOffsets(_, _, _)
DecodeOffsets(a, p, from) ==
  IF p + 1 > Len(a) \/ p + OffsetWidth(a[p + 1]) > Len(a) THEN <<>>
  ELSE LET to == from + OffsetValue(a, p)
           link == [at |-> p, distance |-> OffsetValue(a, p), to |-> to]
       IN IF IsEndOffset(a[p + 1]) THEN <<link>>
          ELSE <<link>> \o DecodeOffsets(a, p + OffsetWidth(a[p + 1]), to)

\* Whether the node at address p begins with the next character of key
\* (with a return value when the key is consumed).
NodeBegins(a, p, key, ki) ==
  /\ p + 1 <= Len(a)
  /\ IF ki > Len(key) THEN IsReturnValue(a[p + 1])
     ELSE (IsChar(a[p + 1]) \/ IsEndChar(a[p + 1])) /\ a[p + 1] % 128 = key[ki]

\* The recognizer: walks the array forward from the source offsets and
\* never goes back.  The return value of key, -1 when key is rejected.
RECURSIVE LookupNode(_, _, _, _)
RECURSIVE LookupLinks(_, _, _, _, _)
LookupNode(a, p, key, ki) ==
  IF p + 1 > Len(a) THEN -1
  ELSE LET b == a[p + 1] IN
       IF IsReturnValue(b) THEN (IF ki > Len(key) THEN b % 16 ELSE -1)
       ELSE IF ki > Len(key) \/ b % 128 # key[ki] THEN -1
       ELSE IF IsEndChar(b)
       THEN LookupLinks(a, DecodeOffsets(a, p + 1, p + 1), 1, key, ki + 1)
       ELSE IF IsChar(b) THEN LookupNode(a, p + 1, key, ki + 1)
       ELSE -1

LookupLinks(a, links, i, key, ki) ==
  IF i > Len(links) THEN -1
  ELSE IF NodeBegins(a, links[i].to, key, ki)
  THEN LookupNode(a, links[i].to, key, ki)
  ELSE LookupLinks(a, links, i + 1, key, ki)

Lookup(a, key) == LookupLinks(a, DecodeOffsets(a, 0, 0), 1, key, 1)

\* ----------------------------------------------------------- state machine
VARIABLES
  pc,       \* where words_to_cxx is, or the exception that ended it
  words,    \* the word list handed to words_to_cxx
  dafsa,    \* the local variable dafsa of words_to_cxx
  fun,      \* the index of the next function of the for loop
  encoded,  \* what encode(dafsa) returned: the byte array and its record
  call,     \* the arguments of a call of encode_links
  links,    \* what that call returned
  block     \* the returned offset block as it lies in the finished array

vars == <<pc, words, dafsa, fun, encoded, call, links, block>>

NotEncoded ==
  [raised |-> "", output |-> <<>>, sorted |-> [raised |-> "", nodes |-> <<>>],
   offsets |-> <<>>, links |-> <<>>]

NoCall == [children |-> <<>>, offsets |-> <<>>, current |-> 0]

\* the words: a body of characters and a return digit
RECURSIVE Bodies(_, _)
Bodies(alphabet, n) ==
  IF n = 0 THEN { <<>> }
  ELSE LET shorter == Bodies(alphabet, n - 1) IN
       {Append(b, c) : b \in shorter, c \in alphabet}

WordsOver(alphabet, digits, maxbody) ==
  {Append(b, d) : b \in UNION {Bodies(alphabet, n) : n \in 1..maxbody},
                  d \in digits}

\* the word lists of n words
ListsOf(wordset, n) == [1..n -> wordset]

Alphabet == {97, 98}
Digits == {49, 50}
InputAlphabet == {31, 32, 127, 128}
InputDigits == {48, 55}

Words == WordsOver(Alphabet, Digits, MaxBody)
InputWords == WordsOver(InputAlphabet, InputDigits, MaxInputBody)

Start(wordset, maxwords) ==
  /\ pc = "to_dafsa"
  /\ \E n \in 0..maxwords : words \in ListsOf(wordset, n)
  /\ dafsa = EmptyDAFSA
  /\ fun = 1
  /\ encoded = NotEncoded
  /\ call = NoCall
  /\ links = NoLinks("")
  /\ block = <<>>

Init == Start(Words, MaxWords)

InitInput == Start(InputWords, MaxInputWords)

\* dafsa = to_dafsa(words)
ToDafsa ==
  /\ pc = "to_dafsa"
  /\ LET r == to_dafsa(words) IN
       /\ pc' = IF r.raised # "" THEN r.raised ELSE "transform"
       /\ dafsa' = r.dafsa
  /\ UNCHANGED <<words, fun, encoded, call, links, block>>

\* dafsa = fun(dafsa)
Transform ==
  /\ pc = "transform"
  /\ dafsa' = Apply(Funs[fun], dafsa)
  /\ fun' = fun + 1
  /\ pc' = IF fun = Len(Funs) THEN "encode" ELSE "transform"
  /\ UNCHANGED <<words, encoded, call, links, block>>

\* encode(dafsa)
Encode ==
  /\ pc = "encode"
  /\ encoded' = encode(dafsa)
  /\ pc' = IF encoded'.raised # "" THEN encoded'.raised ELSE "done"
  /\ UNCHANGED <<words, dafsa, fun, call, links, block>>

Next == ToDafsa \/ Transform \/ Encode

Spec == Init /\ [][Next]_vars

SpecInput == InitInput /\ [][Next]_vars

\* ---------------------------------------- encode_links on its own arguments
\* The call of encode_links that encode makes for the source, with the
\* reversal that ends encode: the block is the head of the finished array.
\* A call with k children: child i is recorded at offsets[i], the positions
\* are pairwise distinct and none is beyond current.
Window == 3 * MaxChildren + MaxGap

FirstGaps ==
  (0..MaxGap) \cup ((Bits6 - Window)..Bits6) \cup ((Bits13 - Window)..Bits13)
    \cup ((Bits21 - Window)..Bits21)

Gaps == {1, Bits6 - 1, Bits6, Bits13 - 1, Bits13}

RECURSIVE Positions(_, _)
Positions(gaps, i) ==
  IF i > Len(gaps) THEN 1 ELSE gaps[i] + Positions(gaps, i + 1)

\* gaps[1]: from the nearest child to current; gaps[i]: between two children
GapLists(k) ==
  {<<first>> \o rest : first \in FirstGaps, rest \in [1..(k - 1) -> Gaps]}

Call(gaps, order) ==
  [children |-> [i \in 1..Len(gaps) |-> i],
   offsets |-> [i \in 1..Len(gaps) |-> Positions(gaps, order[i] + 1)],
   current |-> Positions(gaps, 1)]

InitLinks ==
  /\ pc = "encode_links"
  /\ \E k \in 1..MaxChildren :
       \E gaps \in GapLists(k), order \in Permutations(1..k) :
         call = Call(gaps, order)
  /\ links = NoLinks("")
  /\ block = <<>>
  /\ words = <<>>
  /\ dafsa = EmptyDAFSA
  /\ fun = 1
  /\ encoded = NotEncoded

EncodeLinks ==
  /\ pc = "encode_links"
  /\ links' = encode_links(call.children, call.offsets, call.current)
  /\ block' = Reversed(links'.buf)
  /\ pc' = IF links'.raised # "" THEN links'.raised ELSE "returned"
  /\ UNCHANGED <<words, dafsa, fun, encoded, call>>

NextLinks == EncodeLinks

SpecLinks == InitLinks /\ [][NextLinks]_vars

\* ------------------------------------------------- vocabulary of the claims
Elems(s) == {s[i] : i \in 1..Len(s)}

HasDuplicate(W) == \E i, j \in 1..Len(W) : i < j /\ W[i] = W[j]

Body(word) == SubSeq(word, 1, Len(word) - 1)

ReturnDigit(word) == word[Len(word)] - 48

\* a character outside 0x20-0x7F before the return digit of some word
BadCharacter(W) ==
  \E i \in 1..Len(W) : \E j \in 1..(Len(W[i]) - 1) :
     ~(32 <= W[i][j] /\ W[i][j] <= 127)

\* non-empty, pairwise distinct, every word a body of one or more characters
\* in 0x20-0x7F followed by a digit '0'..'7'
ValidDictionary(W) ==
  /\ W # <<>>
  /\ ~HasDuplicate(W)
  /\ ~BadCharacter(W)
  /\ \A i \in 1..Len(W) :
       Len(W[i]) >= 2 /\ ReturnDigit(W[i]) \in 0..7

Raised == {"InputError", "AssertionError", "KeyError"}

\* the interior nodes of graph g that its source reaches
RECURSIVE Closure(_, _)
Closure(heap, S) ==
  LET T == S \cup (UNION {Elems(heap[n].children) : n \in S} \ {None}) IN
  IF T = S THEN S ELSE Closure(heap, T)

Reachable(g) == Closure(g.heap, Elems(g.src) \ {None})

\* the child lists of graph g: the source's and every reachable node's
ChildLists(g) == {g.src} \cup {g.heap[n].children : n \in Reachable(g)}

\* the graph returned by the whole sequence of transformations
Transformed == pc \in {"encode", "done"}

\* ------------------------------------------------------------------ claims

Keys == UNION {Bodies(Alphabet, n) : n \in 0..(MaxBody + 1)}

PairedDigits(W, key) ==
  {ReturnDigit(W[i]) : i \in {j \in 1..Len(W) : Body(W[j]) = key}}

\* C1: for every valid dictionary the recognizer, walking the byte array
\* forward from the source offsets, accepts exactly the words of the
\* dictionary, returns for an accepted word a digit the dictionary pairs
\* with it, and rejects every other string; the pipeline raises nothing.
C1_RoundTrip ==
  ValidDictionary(words) =>
    /\ pc \notin Raised
    /\ pc = "done" =>
         \A key \in Keys :
           LET found == Lookup(encoded.output, key) IN
           IF PairedDigits(words, key) = {} THEN found = -1
           ELSE found \in PairedDigits(words, key)

\* the first example of the documentation: aa, 1 and a, 2
C1_Witness ==
  /\ pc = "done"
  /\ words = << <<97, 97, 49>>, <<97, 50>> >>
  /\ encoded.output = <<129, 225, 2, 129, 130, 97, 129>>
  /\ Lookup(encoded.output, <<97, 97>>) = 1
  /\ Lookup(encoded.output, <<97>>) = 2
  /\ Lookup(encoded.output, <<97, 98>>) = -1

Deterministic(g) ==
  \A children \in ChildLists(g) :
    \A i, j \in 1..Len(children) :
      (/\ children[i] # children[j]
       /\ children[i] # None
       /\ children[j] # None)
        => g.heap[children[i]].label[1] # g.heap[children[j]].label[1]

\* C3: in the graph returned by the transformations of a valid dictionary,
\* neither the source nor an interior node has two distinct children whose
\* labels begin with the same character.
C3_DeterministicChildren ==
  (ValidDictionary(words) /\ Transformed) => Deterministic(dafsa)

\* an interior node with two interior children
C3_Witness ==
  /\ ValidDictionary(words)
  /\ Transformed
  /\ \E n \in Reachable(dafsa) :
       /\ Len(dafsa.heap[n].children) = 2
       /\ None \notin Elems(dafsa.heap[n].children)

SinkIsSoleChild(g) ==
  \A n \in Reachable(g) :
    None \in Elems(g.heap[n].children) => Len(g.heap[n].children) = 1

\* C4: a word list that holds the same word more than once is compiled
\* without an exception, and in the graph handed to encode every node that
\* leads to the sink has the sink as its sole child.
C4_DuplicatesCompile ==
  (HasDuplicate(words) /\ ~BadCharacter(words)) =>
    /\ pc \notin Raised
    /\ Transformed => SinkIsSoleChild(dafsa)

Malformed(W) == W = <<>> \/ BadCharacter(W)

\* C5: to_dafsa raises InputError exactly when the word list is empty or a
\* word has a character outside 0x20-0x7F before its return digit, and
\* then no transformation has run and no byte of output exists.
C5_MalformedInputRejected ==
  /\ pc # "to_dafsa" => (pc = "InputError" <=> Malformed(words))
  /\ pc = "InputError" =>
       /\ dafsa = EmptyDAFSA
       /\ fun = 1
       /\ encoded = NotEncoded

\* a list whose first word is well formed and whose second is not
C5_Witness ==
  /\ pc = "InputError"
  /\ Len(words) = 2
  /\ words[1] = <<127, 55>>
  /\ words[2] = <<128, 48>>

NodeAddress(n) == Len(encoded.output) - encoded.offsets[n]

BlockAddress(entry) ==
  Len(encoded.output) - (entry.current + Len(entry.call.buf))

ForwardLinks(entry) ==
  LET children == entry.call.children
      distances == entry.call.distances
      decoded == DecodeOffsets(encoded.output, BlockAddress(entry),
                               BlockAddress(entry))
  IN /\ Len(distances) = Len(children)
     /\ Len(decoded) = Len(children)
     /\ \A i \in 1..Len(children) :
          /\ distances[i] > 0
          /\ decoded[i].distance = distances[i]
          /\ decoded[i].at >= BlockAddress(entry)
          /\ decoded[i].to > decoded[i].at
          /\ decoded[i].to < Len(encoded.output)
          /\ decoded[i].to = NodeAddress(children[i])

\* C2: for every valid dictionary every offset that encode_links encodes is
\* a distance d > 0, and in the finished array following it from its offset
\* block leads forward, inside the array, to the start address of the child
\* it links to; no child's position is missing when its parent is encoded.
C2_ForwardOnlyJumps ==
  ValidDictionary(words) =>
    /\ pc \notin Raised
    /\ pc = "done" =>
         \A e \in 1..Len(encoded.links) :
           encoded.links[e].call.children # <<>>
             => ForwardLinks(encoded.links[e])

\* an interior node encoded with two links
C2_Witness ==
  /\ ValidDictionary(words)
  /\ pc = "done"
  /\ \E e \in 1..Len(encoded.links) :
       /\ encoded.links[e].node # None
       /\ Len(encoded.links[e].call.children) = 2

ChildrenOf(g, owner) == IF owner = None THEN g.src ELSE g.heap[owner].children

\* the parents of n; None stands for the source
Parents(g, n) ==
  {owner \in Reachable(g) \cup {None} : n \in Elems(ChildrenOf(g, owner))}

Suffixes(g, n) == frozenset(to_words(g.heap, n))

Minimal(g) ==
  /\ \A m, n \in Reachable(g) : m # n => Suffixes(g, m) # Suffixes(g, n)
  /\ \A n \in Reachable(g) :
       ~(/\ Len(g.heap[n].children) = 1
         /\ g.heap[n].children[1] # None
         /\ Cardinality(Parents(g, g.heap[n].children[1])) = 1)

\* C8: in the graph returned by the transformations of a valid dictionary no
\* two distinct reachable interior nodes have the same set of words towards
\* the sink, and no reachable interior node has exactly one child that is
\* an interior node with exactly one parent.
C8_SizeMinimality ==
  (ValidDictionary(words) /\ Transformed) => Minimal(dafsa)

\* two nodes share their only child, a node with a joined label
C8_Witness ==
  /\ ValidDictionary(words)
  /\ Transformed
  /\ \E n \in Reachable(dafsa) :
       /\ Len(dafsa.heap[n].children) = 1
       /\ dafsa.heap[n].children[1] # None
       /\ Cardinality(Parents(dafsa, dafsa.heap[n].children[1])) = 2
       /\ Len(dafsa.heap[dafsa.heap[n].children[1]].label) >= 2

Sorted == pc \in {"done", "AssertionError", "KeyError"}

TopologicalOrder(g, nodes) ==
  /\ Elems(nodes) = Reachable(g)
  /\ Len(nodes) = Cardinality(Reachable(g))
  /\ \A i \in 1..Len(nodes) :
       \A c \in Elems(g.heap[nodes[i]].children) \ {None} :
         \E j \in (i + 1)..Len(nodes) : nodes[j] = c

\* C10: for the graph of a valid dictionary top_sort returns a sequence that
\* holds every interior node the source reaches exactly once and before each
\* of its non-sink children, and its assertion never fails.
C10_TopologicalOrder ==
  (ValidDictionary(words) /\ Sorted) =>
    /\ encoded.sorted.raised = ""
    /\ TopologicalOrder(dafsa, encoded.sorted.nodes)

\* three nodes, one of them with two parents
C10_Witness ==
  /\ ValidDictionary(words)
  /\ pc = "done"
  /\ Len(encoded.sorted.nodes) >= 3
  /\ \E n \in Reachable(dafsa) : Cardinality(Parents(dafsa, n)) = 2

\* the addresses of the link lead bytes of an offset block
RECURSIVE LeadBytes(_, _)
LeadBytes(b, p) ==
  IF p > Len(b) THEN <<>>
  ELSE <<p>> \o LeadBytes(b, p + OffsetWidth(b[p]))

Flagged(b) == {p \in Elems(LeadBytes(b, 1)) : IsEndOffset(b[p])}

\* C6 as stated: a returned offset block has exactly one link lead byte with
\* the last-link flag, and in the finished array it is the byte at the lowest
\* address of the block.
C6_FlagAtLowestAddress ==
  pc = "returned" => Flagged(block) = {1}

\* C6 amended: a returned offset block of k links has exactly one link lead
\* byte with the last-link flag, and in the finished array it is the lead
\* byte of the last link of the block: the link at the highest address, the
\* last one read, to the child farthest in address.
C6_FlagOnLastLink ==
  pc = "returned" =>
    LET leads == LeadBytes(block, 1)
        k == Len(call.children)
    IN /\ Len(leads) = k
       /\ Flagged(block) = {leads[k]}
       /\ \A i \in 1..k :
            OffsetValue(block, leads[i] - 1) = links.distances[i]
       /\ \A i \in 1..(k - 1) :
            call.offsets[links.children[i]]
              > call.offsets[links.children[i + 1]]

\* two links or more, and a byte that has the high bit without being a lead
C6_Witness ==
  /\ pc = "returned"
  /\ Len(call.children) >= 2
  /\ \E p \in 1..Len(block) :
       p \notin Elems(LeadBytes(block, 1)) /\ block[p] >= 128

\* C7 as stated: a call with k children that returns has computed the offset
\* block at most 2k times.
C7_AtMost2k ==
  pc = "returned" => Len(links.guesses) <= 2 * Len(call.children)

\* C7 amended: a call with k children that returns has computed the offset
\* block at most 2k times when k >= 2 and at most 3 times when k = 1.
C7_AtMost2kOr3 ==
  pc = "returned" =>
    Len(links.guesses) <=
      IF Len(call.children) = 1 THEN 3 ELSE 2 * Len(call.children)

\* one child at distance 64 from the block guessed at 3 bytes: 3 computations
C7_Witness ==
  /\ pc = "returned"
  /\ Len(call.children) = 1
  /\ call.current + 3 - call.offsets[1] = Bits6
  /\ Len(links.guesses) = 3

\* C9: the first guess is 3k; the block of every iteration is no longer than
\* its guess; the next guess is that length and is smaller; on exit the block
\* is as long as the guess that was added to current for its distances.
C9_GuessDecreases ==
  pc # "encode_links" =>
    LET g == links.guesses
        k == Len(call.children)
    IN /\ Len(g) >= 1
       /\ g[1].guess = 3 * k
       /\ \A i \in 1..Len(g) : g[i].length <= g[i].guess
       /\ \A i \in 1..(Len(g) - 1) :
            g[i + 1].guess = g[i].length /\ g[i + 1].guess < g[i].guess
       /\ pc = "returned" =>
            /\ g[Len(g)].length = g[Len(g)].guess
            /\ Len(links.buf) = g[Len(g)].guess
            /\ links.distances[1] =
                 call.current + g[Len(g)].guess
                   - call.offsets[links.children[1]]

\* two children and a guess that shrinks twice
C9_Witness ==
  /\ pc = "returned"
  /\ Len(call.children) = 2
  /\ Len(links.guesses) = 3

====
